---- MODULE Spec2Model ----
(***************************************************************************)
(* Model of the two Azure pipeline step scripts of HIFIS-model:            *)
(*   src/azure/preprocess_step/preprocess_step.py                          *)
(*   src/azure/train_step/train_step.py                                    *)
(*                                                                         *)
(* A Python str is a sequence of symbols; a symbol is either the path      *)
(* separator "/" or a token that contains no separator.  Python's None is  *)
(* the value None below, which is no sequence over the symbols in use.     *)
(***************************************************************************)
EXTENDS Integers, Sequences, FiniteSets, TLC

VARIABLES static,        \* the document stored in config.yml
          args,          \* the parsed command line (argparse namespace)
          wd,            \* os.getcwd()
          config_at,     \* the directory (components) that holds config.yml
          stage,         \* which script this process runs
          pc,            \* position of the script
          cfg,           \* cfg of each stage's process
          applied,       \* how often each stage's rewriting block has run
          opened,        \* the path handed to open() by the load step
          fs,            \* kind of every prefix of the stage's output directory
          calls,         \* the external calls made so far, in order
          failed_at,     \* the step that raised, "" while none has
          cb,            \* the LogRunMetrics instance and the training loop around it
          sink,          \* what the callback forwarded to run.log
          ret,           \* what multi_train returned
          ti             \* index of the test-metric loop

vars == <<static, args, wd, config_at, stage, pc, cfg, applied, opened, fs,
          calls, failed_at, cb, sink, ret, ti>>

---------------------------------------------------------------------------
(* Bounds *)
MaxLen == 4        \* longest directory prefix of a PATHS value
MaxApply == 2      \* applications of a rewriting block in SpecRewrite
MaxModels == 2     \* models trained by multi_train
MaxEpochs == 3     \* epochs per model

---------------------------------------------------------------------------
(* Strings *)
Sep == "/"
None == <<"None">>
Chars == {Sep, "a"}

RECURSIVE StrUpTo(_)
StrUpTo(n) ==
  IF n = 0 THEN {<<>>}
  ELSE LET S == StrUpTo(n - 1)
       IN S \cup {Append(s, c) : s \in {t \in S : Len(t) = n - 1}, c \in Chars}

IsStr(v) == v # None

\* index of the first separator of s, 0 when it has none
RECURSIVE FirstSep(_, _)
FirstSep(s, i) ==
  IF i > Len(s) THEN 0
  ELSE IF s[i] = Sep THEN i ELSE FirstSep(s, i + 1)

\* str.split('/'): the list of the segments between separators
RECURSIVE split(_)
split(s) ==
  LET i == FirstSep(s, 1)
  IN IF i = 0 THEN <<s>>
     ELSE <<SubSeq(s, 1, i - 1)>> \o split(SubSeq(s, i + 1, Len(s)))

\* list[-1]
Last(l) == l[Len(l)]

\* mutant: list[0], the first segment
relocate_first(dir, v) == dir \o <<Sep>> \o split(v)[1]
\* mutant: the value is appended whole
relocate_whole(dir, v) == dir \o <<Sep>> \o v

\* dir + '/' + v.split('/')[-1]
relocate(dir, v) == dir \o <<Sep>> \o Last(split(v))

---------------------------------------------------------------------------
(* Configuration document *)
Keys == {"RAW_DATA", "RAW_SPDAT_DATA", "PROCESSED_DATA", "PROCESSED_OHE_DATA",
         "TRAIN_SET", "TEST_SET", "GROUND_TRUTH", "DATA_INFO",
         "ORDINAL_COL_TRANSFORMER", "OHE_COL_TRANSFORMER_MV",
         "OHE_COL_TRANSFORMER_SV", "SCALER_COL_TRANSFORMER", "MODEL_TO_LOAD",
         "MODEL_WEIGHTS", "LOGS"}
TrainKeys == {"PATIENCE", "BATCH_SIZE"}
Stages == {"preprocess", "train"}

\* cfg['PATHS'][k] = v
SetPath(doc, k, v) ==
  [doc EXCEPT !.PATHS = [x \in DOMAIN doc.PATHS \cup {k} |->
                            IF x = k THEN v ELSE doc.PATHS[x]]]

\* The assignments of a rewriting block, in source order: <<key, argument>>;
\* every one is key = argument + '/' + key.split('/')[-1] but LOGS, which is
\* key = argument.
PreprocessAssignments ==
  << <<"RAW_DATA", "rawdatadir">>,
     <<"RAW_SPDAT_DATA", "rawdatadir">>,
     <<"PROCESSED_DATA", "preprocessedoutputdir">>,
     <<"PROCESSED_OHE_DATA", "preprocessedoutputdir">>,
     <<"TRAIN_SET", "preprocessedoutputdir">>,
     <<"TEST_SET", "preprocessedoutputdir">>,
     <<"GROUND_TRUTH", "preprocessedoutputdir">>,
     <<"DATA_INFO", "preprocessedoutputdir">>,
     <<"ORDINAL_COL_TRANSFORMER", "preprocessedoutputdir">>,
     <<"OHE_COL_TRANSFORMER_MV", "preprocessedoutputdir">>,
     <<"OHE_COL_TRANSFORMER_SV", "preprocessedoutputdir">> >>

\* mutant: the training stage also relocates MODEL_WEIGHTS
TrainAssignmentsWeights ==
  << <<"PROCESSED_DATA", "preprocessedoutputdir">>,
     <<"PROCESSED_OHE_DATA", "preprocessedoutputdir">>,
     <<"TRAIN_SET", "preprocessedoutputdir">>,
     <<"TEST_SET", "preprocessedoutputdir">>,
     <<"DATA_INFO", "preprocessedoutputdir">>,
     <<"SCALER_COL_TRANSFORMER", "trainoutputdir">>,
     <<"MODEL_TO_LOAD", "trainoutputdir">>,
     <<"MODEL_WEIGHTS", "trainoutputdir">>,
     <<"LOGS", "traininglogsdir">> >>

TrainAssignments ==
  << <<"PROCESSED_DATA", "preprocessedoutputdir">>,
     <<"PROCESSED_OHE_DATA", "preprocessedoutputdir">>,
     <<"TRAIN_SET", "preprocessedoutputdir">>,
     <<"TEST_SET", "preprocessedoutputdir">>,
     <<"DATA_INFO", "preprocessedoutputdir">>,
     <<"SCALER_COL_TRANSFORMER", "trainoutputdir">>,
     <<"MODEL_TO_LOAD", "trainoutputdir">>,
     <<"LOGS", "traininglogsdir">> >>

Assignments(s) == IF s = "preprocess" THEN PreprocessAssignments ELSE TrainAssignments

\* One assignment statement: [doc, ok]; ok is FALSE when the statement raises
\* (KeyError for a missing key, AttributeError for a None value, TypeError
\* for a None argument) and doc is then left as it was.
Assign(doc, a, as) ==
  IF as[1] = "LOGS" THEN [doc |-> SetPath(doc, "LOGS", a[as[2]]), ok |-> TRUE]
  ELSE IF /\ as[1] \in DOMAIN doc.PATHS
          /\ IsStr(doc.PATHS[as[1]])
          /\ IsStr(a[as[2]])
       THEN [doc |-> SetPath(doc, as[1], relocate(a[as[2]], doc.PATHS[as[1]])),
             ok |-> TRUE]
       ELSE [doc |-> doc, ok |-> FALSE]

\* The statements i.. of a block, stopping at the first that raises.
RECURSIVE RunAssignments(_, _, _, _)
RunAssignments(doc, a, list, i) ==
  IF i > Len(list) THEN [doc |-> doc, ok |-> TRUE]
  ELSE LET r == Assign(doc, a, list[i])
       IN IF r.ok THEN RunAssignments(r.doc, a, list, i + 1) ELSE r

\* mutant: TRAIN_SET is relocated into the train output directory
RewriteTrainSetElsewhere(s, doc, a) ==
  LET r == RunAssignments(doc, a, Assignments(s), 1)
  IN IF s = "train" /\ r.ok
     THEN [r EXCEPT !.doc = SetPath(r.doc, "TRAIN_SET",
                               relocate(a.trainoutputdir, doc.PATHS["TRAIN_SET"]))]
     ELSE r

\* The whole rewriting block of stage s applied to doc.
Rewrite(s, doc, a) == RunAssignments(doc, a, Assignments(s), 1)

---------------------------------------------------------------------------
(* Inputs *)
PathPrefixes == StrUpTo(MaxLen)

\* A document whose PATHS values are prefix + file name; with named the file
\* name of key k is the token k, without it every value is the bare prefix
\* (which may be empty, end in a separator, or hold none).
Document(prefix, named, weights, train) ==
  [PATHS |-> [k \in Keys |->
                IF k = "MODEL_WEIGHTS" /\ ~weights THEN None
                ELSE prefix \o (IF named THEN <<k>> ELSE <<>>)],
   TRAIN |-> train]

TrainSection == [PATIENCE |-> 15, BATCH_SIZE |-> 128]

\* directory arguments: empty, root, relative, absolute, trailing separator, nested
DirList == << <<>>, <<Sep>>, <<"o">>, <<Sep, "o">>, <<"o", Sep>>, <<Sep, "m", Sep, "o">> >>
Dirs == {DirList[i] : i \in DOMAIN DirList}
Rot(i, j) == DirList[((i + j - 1) % Len(DirList)) + 1]

\* command lines: the four arguments pairwise different (every rotation of
\* DirList), and the four arguments equal
CommandLines ==
  {[rawdatadir |-> Rot(i, 0), preprocessedoutputdir |-> Rot(i, 1),
    traininglogsdir |-> Rot(i, 2), trainoutputdir |-> Rot(i, 3)] : i \in DOMAIN DirList}
  \cup {[rawdatadir |-> d, preprocessedoutputdir |-> d,
         traininglogsdir |-> d, trainoutputdir |-> d] : d \in Dirs}

\* cb: the callbacks list, the LogRunMetrics instance's counter, and where
\* the training routine is: models begun, epochs the current model has ended,
\* whether a model is being fitted
NoCallback == [callbacks |-> <<>>, model_counter |-> 0, trained |-> 0, epochs |-> 0,
               running |-> FALSE]
NoReturn == [model |-> 0, test_metrics |-> <<>>, best_logs_date |-> 0]

---------------------------------------------------------------------------
(* Paths and the file system *)

\* The components a POSIX path names: empty and "." segments are skipped.
Components(p) == SelectSeq(split(p), LAMBDA c : c # <<>> /\ c # <<".">>)

\* os.getcwd() + "./config.yml"
ConfigPath(w) == w \o <<".", Sep, "config.yml">>

\* The components of directory argument d in a process whose working
\* directory is w (os.getcwd() is absolute).
Resolve(d, w) ==
  IF d # <<>> /\ d[1] = Sep THEN Components(d) ELSE Components(w) \o Components(d)

\* The directory argument a stage provisions.
OutputDir(s, a) ==
  IF s = "preprocess" THEN a.preprocessedoutputdir ELSE a.trainoutputdir

\* fs[i] is the kind of the i-th prefix of path: "dir", "file" or "absent".
\* os.path.exists(d)
exists(d, path, f) ==
  /\ d # <<>>
  /\ Len(path) = 0 \/ f[Len(path)] # "absent"

\* os.makedirs(d), called on a path that does not exist: it creates every
\* missing component, and raises when d is empty or a component is a file.
makedirs(d, path, f) ==
  IF d = <<>> \/ \E i \in DOMAIN f : f[i] = "file"
  THEN [fs |-> f, ok |-> FALSE]
  ELSE [fs |-> [i \in DOMAIN f |-> "dir"], ok |-> TRUE]

\* if not os.path.exists(d): os.makedirs(d)
Provision(d, path, f) ==
  IF exists(d, path, f) THEN [fs |-> f, ok |-> TRUE, called |-> FALSE]
  ELSE LET r == makedirs(d, path, f)
       IN [fs |-> r.fs, ok |-> r.ok, called |-> TRUE]

---------------------------------------------------------------------------
(* The metrics callback *)

\* the keys of the epoch log Keras hands to on_epoch_end, in order
LogMetrics == <<"loss", "val_loss">>

\* 'model' + str(model_counter) + '_' + metric_name
ModelTag(counter, metric_name) == <<"model", counter, "_", metric_name>>

\* if epoch == 1: self.model_counter += 1
counter_after(model_counter, epoch) ==
  IF epoch = 1 THEN model_counter + 1 ELSE model_counter

\* LogRunMetrics.on_epoch_end(epoch, log), its run.log calls stopping before
\* the n-th metric: the new counter and the names logged.
on_epoch_end(model_counter, epoch, n) ==
  LET c == counter_after(model_counter, epoch)
  IN [model_counter |-> c,
      logged |-> [i \in 1..(n - 1) |-> ModelTag(c, LogMetrics[i])]]

---------------------------------------------------------------------------
(* The stage scripts, statement by statement *)

PreprocessSteps == <<"load", "rewrite", "provision", "preprocess">>
\* mutant: the model is saved before the plots are made
TrainStepsSaveEarly == <<"load", "rewrite", "provision", "load_dataset", "callbacks",
                         "multi_train", "log_best", "predict", "log_test", "save",
                         "plot_roc", "log_roc", "plot_cm", "log_cm">>
TrainSteps == <<"load", "rewrite", "provision", "load_dataset", "callbacks",
                "multi_train", "log_best", "predict", "log_test", "plot_roc",
                "log_roc", "plot_cm", "log_cm", "save">>
Steps(s) == IF s = "preprocess" THEN PreprocessSteps ELSE TrainSteps

StepIndex(s, step) == CHOOSE i \in DOMAIN Steps(s) : Steps(s)[i] = step

\* the statement after `step`
After(step) ==
  LET i == StepIndex(stage, step)
  IN IF i = Len(Steps(stage)) THEN "done" ELSE Steps(stage)[i + 1]

Call(fn, a) == [fn |-> fn, a |-> a]

\* mutant: the exception is swallowed and the script goes on
RaiseSwallowed(step) ==
  /\ pc' = After(step)
  /\ failed_at' = step

\* An uncaught exception ends the process.
Raise(step) ==
  /\ pc' = "failed"
  /\ failed_at' = step

Continue(step) ==
  /\ pc' = After(step)
  /\ failed_at' = failed_at

\* cfg = yaml.full_load(open(os.getcwd() + "./config.yml", 'r'))
Load ==
  /\ pc = "load"
  /\ opened' = ConfigPath(wd)
  /\ IF Components(opened') = Append(config_at, <<"config.yml">>)
     THEN /\ cfg' = [cfg EXCEPT ![stage] = static]
          /\ Continue("load")
     ELSE /\ cfg' = cfg
          /\ Raise("load")
  /\ UNCHANGED <<static, args, wd, config_at, stage, applied, fs, calls, cb,
                 sink, ret, ti>>

\* the block of cfg['PATHS'][...] = ... statements
RewriteStep ==
  /\ pc = "rewrite"
  /\ LET r == Rewrite(stage, cfg[stage], args)
     IN /\ cfg' = [cfg EXCEPT ![stage] = r.doc]
        /\ IF r.ok THEN Continue("rewrite") ELSE Raise("rewrite")
  /\ applied' = [applied EXCEPT ![stage] = @ + 1]
  /\ UNCHANGED <<static, args, wd, config_at, stage, opened, fs, calls, cb,
                 sink, ret, ti>>

\* if not os.path.exists(dir): os.makedirs(dir)
ProvisionStep ==
  /\ pc = "provision"
  /\ LET d == OutputDir(stage, args)
         r == Provision(d, Resolve(d, wd), fs)
     IN /\ fs' = r.fs
        /\ calls' = IF r.called THEN Append(calls, Call("os.makedirs", d)) ELSE calls
        /\ IF r.ok THEN Continue("provision") ELSE Raise("provision")
  /\ UNCHANGED <<static, args, wd, config_at, stage, cfg, applied, opened, cb,
                 sink, ret, ti>>

\* os.makedirs is refused by the storage (permissions, quota) after it has
\* created the first n missing components.
ProvisionRefused ==
  /\ pc = "provision"
  /\ LET d == OutputDir(stage, args)
         path == Resolve(d, wd)
         missing == {i \in DOMAIN fs : fs[i] = "absent"}
     IN /\ ~exists(d, path, fs)
        /\ makedirs(d, path, fs).ok
        /\ \E n \in 0..(Cardinality(missing) - 1) :
             fs' = [i \in DOMAIN fs |->
                      IF i <= Len(path) - Cardinality(missing) + n THEN "dir"
                      ELSE "absent"]
        /\ calls' = Append(calls, Call("os.makedirs", d))
  /\ Raise("provision")
  /\ UNCHANGED <<static, args, wd, config_at, stage, cfg, applied, opened, cb,
                 sink, ret, ti>>

PreprocessFlags ==
  [n_weeks |-> None, include_gt |-> TRUE, calculate_gt |-> TRUE,
   classify_cat_feats |-> TRUE, load_ct |-> FALSE]

\* A statement that is one call into a collaborator: the call is made, and
\* it returns or raises.
Invoke(step, call) ==
  /\ calls' = Append(calls, call)
  /\ \/ Continue(step)
     \/ Raise(step)
  /\ UNCHANGED <<static, args, wd, config_at, stage, cfg, applied, opened, fs,
                 cb, sink, ret, ti>>

\* preprocessed_data = preprocess(config=cfg, n_weeks=None, ...)
Preprocess ==
  /\ pc = "preprocess"
  /\ Invoke("preprocess", Call("preprocess", [config |-> cfg[stage]] @@ PreprocessFlags))

\* data = load_dataset(cfg)
LoadDataset ==
  /\ pc = "load_dataset"
  /\ Invoke("load_dataset", Call("load_dataset", cfg[stage]))

\* callbacks = [EarlyStopping(monitor='val_loss', ..., patience=cfg['TRAIN']['PATIENCE'],
\*              ...), LogRunMetrics()]
Callbacks ==
  /\ pc = "callbacks"
  /\ IF "PATIENCE" \in DOMAIN cfg[stage].TRAIN
     THEN /\ cb' = [cb EXCEPT !.callbacks =
                      << [type |-> "EarlyStopping", monitor |-> "val_loss",
                          patience |-> cfg[stage].TRAIN["PATIENCE"], mode |-> "min",
                          restore_best_weights |-> TRUE],
                         [type |-> "LogRunMetrics"] >>,
                    !.model_counter = 0]
          /\ Continue("callbacks")
     ELSE /\ cb' = cb
          /\ Raise("callbacks")
  /\ UNCHANGED <<static, args, wd, config_at, stage, cfg, applied, opened, fs,
                 calls, sink, ret, ti>>

\* multi_train(cfg, data, callbacks, base_log_dir=cfg['PATHS']['LOGS']) is entered
MultiTrain ==
  /\ pc = "multi_train"
  /\ calls' = Append(calls, Call("multi_train",
                 [config |-> cfg[stage], callbacks |-> cb.callbacks,
                  base_log_dir |-> cfg[stage].PATHS["LOGS"]]))
  /\ pc' = "training"
  /\ UNCHANGED <<static, args, wd, config_at, stage, cfg, applied, opened, fs,
                 failed_at, cb, sink, ret, ti>>

\* the training routine starts fitting its next model
BeginModel ==
  /\ pc = "training" /\ ~cb.running /\ cb.trained < MaxModels
  /\ cb' = [cb EXCEPT !.trained = @ + 1, !.epochs = 0, !.running = TRUE]
  /\ UNCHANGED <<static, args, wd, config_at, stage, pc, cfg, applied, opened,
                 fs, calls, failed_at, sink, ret, ti>>

Forwarded(logged) ==
  [i \in DOMAIN logged |-> [name |-> logged[i], model |-> cb.trained, epoch |-> cb.epochs]]

\* Keras ends epoch cb.epochs of the current model and calls on_epoch_end
EpochEnd ==
  /\ pc = "training" /\ cb.running /\ cb.epochs < MaxEpochs
  /\ LET r == on_epoch_end(cb.model_counter, cb.epochs, Len(LogMetrics) + 1)
     IN /\ cb' = [cb EXCEPT !.model_counter = r.model_counter, !.epochs = @ + 1]
        /\ sink' = sink \o Forwarded(r.logged)
  /\ UNCHANGED <<static, args, wd, config_at, stage, pc, cfg, applied, opened,
                 fs, calls, failed_at, ret, ti>>

\* ... and the n-th run.log of the callback raises
EpochEndRaises ==
  /\ pc = "training" /\ cb.running /\ cb.epochs < MaxEpochs
  /\ \E n \in DOMAIN LogMetrics :
       LET r == on_epoch_end(cb.model_counter, cb.epochs, n)
       IN /\ cb' = [cb EXCEPT !.model_counter = r.model_counter]
          /\ sink' = sink \o Forwarded(r.logged)
  /\ Raise("multi_train")
  /\ UNCHANGED <<static, args, wd, config_at, stage, cfg, applied, opened, fs,
                 calls, ret, ti>>

\* the current model stops (epoch budget or early stopping)
EndModel ==
  /\ pc = "training" /\ cb.running /\ cb.epochs >= 1
  /\ cb' = [cb EXCEPT !.running = FALSE]
  /\ UNCHANGED <<static, args, wd, config_at, stage, pc, cfg, applied, opened,
                 fs, calls, failed_at, sink, ret, ti>>

\* the training routine itself raises
TrainRaises ==
  /\ pc = "training"
  /\ Raise("multi_train")
  /\ UNCHANGED <<static, args, wd, config_at, stage, cfg, applied, opened, fs,
                 calls, cb, sink, ret, ti>>

TestMetricDicts == { <<>>, <<"auc", "recall">> }

\* model, test_metrics, best_logs_date = multi_train(...)
MultiTrainReturns ==
  /\ pc = "training" /\ ~cb.running /\ cb.trained >= 1
  /\ \E m \in 1..cb.trained, tm \in TestMetricDicts :
       ret' = [model |-> m, test_metrics |-> tm, best_logs_date |-> m]
  /\ Continue("multi_train")
  /\ UNCHANGED <<static, args, wd, config_at, stage, cfg, applied, opened, fs,
                 calls, cb, sink, ti>>

\* run.log("TensorBoard logs folder", best_logs_date)
LogBest ==
  /\ pc = "log_best"
  /\ Invoke("log_best", Call("run.log", <<"TensorBoard logs folder", ret.best_logs_date>>))

\* the statement after the test-metric loop has handled i - 1 metrics
LoopOrAfter(i) ==
  IF i <= Len(ret.test_metrics) THEN "log_test" ELSE After("log_test")

\* test_predictions = model.predict(data['X_test'], batch_size=cfg['TRAIN']['BATCH_SIZE'])
Predict ==
  /\ pc = "predict"
  /\ IF "BATCH_SIZE" \in DOMAIN cfg[stage].TRAIN
     THEN /\ calls' = Append(calls, Call("model.predict",
                         [model |-> ret.model,
                          batch_size |-> cfg[stage].TRAIN["BATCH_SIZE"]]))
          /\ \/ /\ pc' = LoopOrAfter(1)
                /\ failed_at' = failed_at
             \/ Raise("predict")
     ELSE /\ calls' = calls
          /\ Raise("predict")
  /\ ti' = 1
  /\ UNCHANGED <<static, args, wd, config_at, stage, cfg, applied, opened, fs,
                 cb, sink, ret>>

\* for metric_name in test_metrics: run.log('test_' + metric_name, ...)
LogTest ==
  /\ pc = "log_test"
  /\ calls' = Append(calls, Call("run.log", <<"test_", ret.test_metrics[ti]>>))
  /\ \/ /\ pc' = LoopOrAfter(ti + 1)
        /\ failed_at' = failed_at
        /\ ti' = ti + 1
     \/ /\ Raise("log_test")
        /\ ti' = ti
  /\ UNCHANGED <<static, args, wd, config_at, stage, cfg, applied, opened, fs,
                 cb, sink, ret>>

\* roc_plt = plot_roc("Test set", data['Y_test'], test_predictions)
PlotRoc ==
  /\ pc = "plot_roc"
  /\ Invoke("plot_roc", Call("plot_roc", "Test set"))

\* run.log_image("ROC", plot=roc_plt)
LogRoc ==
  /\ pc = "log_roc"
  /\ Invoke("log_roc", Call("run.log_image", "ROC"))

\* cm_plt = plot_confusion_matrix(data['Y_test'], test_predictions)
PlotCm ==
  /\ pc = "plot_cm"
  /\ Invoke("plot_cm", Call("plot_confusion_matrix", "Y_test"))

\* run.log_image("Confusion matrix", plot=cm_plt)
LogCm ==
  /\ pc = "log_cm"
  /\ Invoke("log_cm", Call("run.log_image", "Confusion matrix"))

\* mutant: the model is saved whatever MODEL_WEIGHTS is
should_save_always(doc) == TRUE
\* cfg['PATHS']['MODEL_WEIGHTS'] is not None
should_save(doc) == doc.PATHS["MODEL_WEIGHTS"] # None

\* the destination handed to save_model: cfg['PATHS']['MODEL_TO_LOAD']
save_path(doc) == doc.PATHS["MODEL_TO_LOAD"]

\* if cfg['PATHS']['MODEL_WEIGHTS'] is not None: save_model(model, cfg['PATHS']['MODEL_TO_LOAD'])
Save ==
  /\ pc = "save"
  /\ IF "MODEL_WEIGHTS" \notin DOMAIN cfg[stage].PATHS
     THEN /\ calls' = calls
          /\ Raise("save")
     ELSE IF should_save(cfg[stage])
     THEN /\ calls' = Append(calls, Call("save_model",
                         [model |-> ret.model, filepath |-> save_path(cfg[stage])]))
          /\ \/ Continue("save")
             \/ Raise("save")
     ELSE /\ calls' = calls
          /\ Continue("save")
  /\ UNCHANGED <<static, args, wd, config_at, stage, cfg, applied, opened, fs,
                 cb, sink, ret, ti>>

---------------------------------------------------------------------------
(* Spec: one run of one stage script in one environment *)

Drop(doc, k) == [doc EXCEPT !.PATHS = [x \in DOMAIN doc.PATHS \ {k} |-> doc.PATHS[x]]]
DropTrain(doc, k) == [doc EXCEPT !.TRAIN = [x \in DOMAIN doc.TRAIN \ {k} |-> doc.TRAIN[x]]]
Nullify(doc, k) == [doc EXCEPT !.PATHS[k] = None]

BaseDocument(weights) == Document(<<".", Sep, "data", Sep>>, TRUE, weights, TrainSection)

\* documents: complete ones, and ones with a key missing or null
StageDocuments ==
  {BaseDocument(w) : w \in BOOLEAN}
  \cup {Drop(BaseDocument(w), k) :
          w \in BOOLEAN, k \in {"RAW_DATA", "TRAIN_SET", "MODEL_TO_LOAD", "LOGS"}}
  \cup {Drop(BaseDocument(TRUE), "MODEL_WEIGHTS")}
  \cup {Nullify(BaseDocument(TRUE), k) : k \in {"RAW_DATA", "TRAIN_SET", "MODEL_TO_LOAD"}}
  \cup {DropTrain(BaseDocument(TRUE), k) : k \in TrainKeys}

BaseArgs == [rawdatadir |-> <<Sep, "r">>, preprocessedoutputdir |-> <<Sep, "m", Sep, "o">>,
             traininglogsdir |-> <<Sep, "l">>, trainoutputdir |-> <<Sep, "m", Sep, "t">>]

\* command lines: the output directory nested, relative, with a trailing
\* separator, the root, empty, and not given at all
StageCommandLines ==
  {BaseArgs}
  \cup {[BaseArgs EXCEPT !.preprocessedoutputdir = d, !.trainoutputdir = d] :
          d \in {<<"o">>, <<"o", Sep>>, <<Sep>>, <<>>, None}}
  \cup {[BaseArgs EXCEPT !.traininglogsdir = None]}

WorkDirs == { <<Sep>>, <<Sep, "w">> }

\* where config.yml may be: in the working directory, or where Load looks
ConfigDirs(w) == {Components(w), SubSeq(Components(ConfigPath(w)), 1, Len(Components(ConfigPath(w))) - 1)}

\* the file systems around n path components of which the first k (the
\* working directory's) are directories: some leading directories, then
\* nothing, or one file and nothing below it
Chains(n, k) ==
  {[i \in 1..n |-> IF i <= j THEN "dir" ELSE IF i = j + 1 /\ file THEN "file" ELSE "absent"] :
     j \in k..n, file \in BOOLEAN}

OutputPath(s, a, w) ==
  IF OutputDir(s, a) = None THEN <<>> ELSE Resolve(OutputDir(s, a), w)

Relative(d) == d # None /\ (d = <<>> \/ d[1] # Sep)

Environments(s) ==
  LET w0 == <<Sep, "w">>
      at0 == SubSeq(Components(ConfigPath(w0)), 1, Len(Components(ConfigPath(w0))) - 1)
      fs0 == [i \in 1..Len(OutputPath(s, BaseArgs, w0)) |-> "absent"]
  IN {[doc |-> d, args |-> BaseArgs, wd |-> w0, at |-> at0, fs |-> fs0] :
        d \in StageDocuments}
     \cup UNION {{[doc |-> BaseDocument(TRUE), args |-> a, wd |-> w0, at |-> at0, fs |-> f] :
                    f \in Chains(Len(OutputPath(s, a, w0)),
                                 IF Relative(OutputDir(s, a)) THEN Len(Components(w0)) ELSE 0)} :
                  a \in StageCommandLines}
     \cup UNION {{[doc |-> BaseDocument(TRUE), args |-> BaseArgs, wd |-> w, at |-> at, fs |-> fs0] :
                    at \in ConfigDirs(w)} :
                  w \in WorkDirs}

NoDocument == [PATHS |-> <<>>, TRAIN |-> <<>>]

Init ==
  /\ stage \in Stages
  /\ \E e \in Environments(stage) :
       /\ static = e.doc /\ args = e.args /\ wd = e.wd
       /\ config_at = e.at /\ fs = e.fs
  /\ pc = "load"
  /\ cfg = [s \in Stages |-> NoDocument]
  /\ applied = [s \in Stages |-> 0]
  /\ opened = <<>> /\ calls = <<>> /\ failed_at = ""
  /\ cb = NoCallback /\ sink = <<>> /\ ret = NoReturn /\ ti = 0

Next ==
  \/ Load \/ RewriteStep \/ ProvisionStep \/ ProvisionRefused
  \/ Preprocess
  \/ LoadDataset \/ Callbacks \/ MultiTrain
  \/ BeginModel \/ EpochEnd \/ EpochEndRaises \/ EndModel \/ TrainRaises
  \/ MultiTrainReturns
  \/ LogBest \/ Predict \/ LogTest \/ PlotRoc \/ LogRoc \/ PlotCm \/ LogCm \/ Save

Spec == Init /\ [][Next]_vars

---------------------------------------------------------------------------
(* SpecRewrite: the two rewriting blocks as functions of the document,     *)
(* applied to one static document under one command line.                  *)
InitRewrite ==
  /\ \E prefix \in PathPrefixes, named \in BOOLEAN :
       static = Document(prefix, named, TRUE, TrainSection)
  /\ args \in CommandLines
  /\ cfg = [s \in Stages |-> static]
  /\ applied = [s \in Stages |-> 0]
  /\ wd = <<Sep>> /\ config_at = <<>> /\ stage = "preprocess" /\ pc = "rewrite"
  /\ opened = <<>> /\ fs = <<>> /\ calls = <<>> /\ failed_at = ""
  /\ cb = NoCallback /\ sink = <<>> /\ ret = NoReturn /\ ti = 0

ApplyRewrite(s) ==
  /\ applied[s] < MaxApply
  /\ LET r == Rewrite(s, cfg[s], args)
     IN /\ r.ok
        /\ cfg' = [cfg EXCEPT ![s] = r.doc]
  /\ applied' = [applied EXCEPT ![s] = @ + 1]
  /\ UNCHANGED <<static, args, wd, config_at, stage, pc, opened, fs, calls,
                 failed_at, cb, sink, ret, ti>>

NextRewrite == \E s \in Stages : ApplyRewrite(s)

SpecRewrite == InitRewrite /\ [][NextRewrite]_vars

---------------------------------------------------------------------------
(* Claims about the rewriting blocks (SpecRewrite) *)

\* the final path segment: the longest suffix that holds no separator
FileName(v) ==
  LET n == CHOOSE n \in 0..Len(v) :
             /\ \A i \in (Len(v) - n + 1)..Len(v) : v[i] # Sep
             /\ n = Len(v) \/ v[Len(v) - n] = Sep
  IN SubSeq(v, Len(v) - n + 1, Len(v))

RawKeys == {"RAW_DATA", "RAW_SPDAT_DATA"}
PreprocessedKeys == {"PROCESSED_DATA", "PROCESSED_OHE_DATA", "TRAIN_SET", "TEST_SET",
                     "GROUND_TRUTH", "DATA_INFO", "ORDINAL_COL_TRANSFORMER",
                     "OHE_COL_TRANSFORMER_MV", "OHE_COL_TRANSFORMER_SV"}
TrainInputKeys == {"PROCESSED_DATA", "PROCESSED_OHE_DATA", "TRAIN_SET", "TEST_SET",
                   "DATA_INFO"}
TrainOutputKeys == {"SCALER_COL_TRANSFORMER", "MODEL_TO_LOAD"}

Relocated(s, k, dir) ==
  cfg[s].PATHS[k] = dir \o <<Sep>> \o FileName(static.PATHS[k])

RelocatedAll ==
  /\ applied["preprocess"] >= 1 =>
       /\ \A k \in RawKeys : Relocated("preprocess", k, args.rawdatadir)
       /\ \A k \in PreprocessedKeys :
            Relocated("preprocess", k, args.preprocessedoutputdir)
  /\ applied["train"] >= 1 =>
       /\ \A k \in TrainInputKeys : Relocated("train", k, args.preprocessedoutputdir)
       /\ \A k \in TrainOutputKeys : Relocated("train", k, args.trainoutputdir)

\* the scenario of the specification, token by token
ScenarioHolds ==
  relocate(<<Sep, "mnt", Sep, "output">>,
           <<".", Sep, "data", Sep, "preprocessed", Sep, "processed.parquet">>)
    = <<Sep, "mnt", Sep, "output", Sep, "processed.parquet">>

\* C1 as stated: every entry a stage assigns, LOGS included, becomes the
\* target directory, a separator and the original value's final segment.
C1_AsStated ==
  /\ RelocatedAll
  /\ applied["train"] >= 1 => Relocated("train", "LOGS", args.traininglogsdir)

\* C1 amended: every entry a stage assigns other than LOGS becomes the target
\* directory, a separator and the original value's final path segment; LOGS
\* becomes --traininglogsdir itself, with nothing appended.
C1_Relocation ==
  /\ RelocatedAll
  /\ ScenarioHolds
  /\ applied["train"] >= 1 => cfg["train"].PATHS["LOGS"] = args.traininglogsdir

C1_Witness ==
  /\ applied["preprocess"] >= 1 /\ applied["train"] >= 1
  /\ static.PATHS["TRAIN_SET"] = <<"a", Sep, "a", "TRAIN_SET">>
  /\ args.preprocessedoutputdir = <<Sep, "m", Sep, "o">>
  /\ cfg["train"].PATHS["TRAIN_SET"] = <<Sep, "m", Sep, "o", Sep, "a", "TRAIN_SET">>

\* C2: once a stage's rewriting block has run, running it again with the
\* same arguments leaves that stage's configuration as it is.
C2_Idempotent ==
  [][\A s \in Stages : applied[s] >= 1 => cfg'[s] = cfg[s]]_vars

C2_Witness ==
  /\ applied["preprocess"] = 2 /\ applied["train"] = 2
  /\ static.PATHS["RAW_DATA"] = <<"a", Sep>>
  /\ static.PATHS["LOGS"] = <<"a", Sep>>
  /\ args.rawdatadir = <<"o", Sep>>
  /\ cfg["preprocess"].PATHS["RAW_DATA"] = <<"o", Sep, Sep>>

\* C3 as stated: all nine entries the preprocessing stage relocates into the
\* preprocessed output directory are the same strings in the training stage.
C3_AsStated ==
  (applied["preprocess"] >= 1 /\ applied["train"] >= 1) =>
    \A k \in PreprocessedKeys : cfg["train"].PATHS[k] = cfg["preprocess"].PATHS[k]

\* C3 amended: the five entries both stages relocate into the preprocessed
\* output directory (PROCESSED_DATA, PROCESSED_OHE_DATA, TRAIN_SET, TEST_SET,
\* DATA_INFO) are the same strings in both stages' configurations.
C3_HandOff ==
  (applied["preprocess"] >= 1 /\ applied["train"] >= 1) =>
    \A k \in TrainInputKeys : cfg["train"].PATHS[k] = cfg["preprocess"].PATHS[k]

C3_Witness ==
  /\ applied["preprocess"] = 1 /\ applied["train"] = 1
  /\ args.preprocessedoutputdir = <<Sep, "o">>
  /\ args.trainoutputdir = <<Sep, "m", Sep, "o">>
  /\ cfg["train"].PATHS["TEST_SET"] = <<Sep, "o", Sep, "TEST_SET">>
  /\ cfg["preprocess"].PATHS["TEST_SET"] = <<Sep, "o", Sep, "TEST_SET">>
  /\ static.PATHS["TEST_SET"] = <<"a", Sep, "TEST_SET">>
---------------------------------------------------------------------------
(* Claims about a stage run (Spec) *)

OutputPathNow == Resolve(OutputDir(stage, args), wd)

\* the provisioning statement has returned normally
Provisioned ==
  /\ pc \notin {"load", "rewrite", "provision"}
  /\ failed_at \notin {"load", "rewrite", "provision"}

\* C4 as stated: every metric the callback forwards during the k-th model's
\* epochs is tagged model<k>, and once training has returned the counter is
\* the number of models trained.
C4_AsStated ==
  /\ \A i \in DOMAIN sink : sink[i].name = ModelTag(sink[i].model, sink[i].name[4])
  /\ (pc \notin {"training", "failed"} /\ ret # NoReturn) => cb.model_counter = cb.trained

\* C6 as stated: when provisioning has returned normally the output
\* directory exists as a directory, whatever the file system was, and
\* provisioning again changes nothing.
C6_AsStated ==
  Provisioned =>
    /\ Len(OutputPathNow) = 0 \/ fs[Len(OutputPathNow)] = "dir"
    /\ Provision(OutputDir(stage, args), OutputPathNow, fs)
         = [fs |-> fs, ok |-> TRUE, called |-> FALSE]

\* C7 as stated: the path a stage opens is the entry config.yml of the
\* working directory.
C7_AsStated ==
  pc # "load" => Components(opened) = Append(Components(wd), <<"config.yml">>)

Saves == SelectSeq(calls, LAMBDA c : c.fn = "save_model")

\* C5: save_model is never called when MODEL_WEIGHTS is null; in a training
\* run with MODEL_WEIGHTS non-null in which no earlier statement failed it
\* is called exactly once, with the model multi_train returned and with the
\* train output directory, a separator and MODEL_TO_LOAD's file name.
C5_Persistence ==
  stage = "train" /\ "MODEL_WEIGHTS" \in DOMAIN static.PATHS =>
    /\ static.PATHS["MODEL_WEIGHTS"] = None => Saves = <<>>
    /\ Len(Saves) <= 1
    /\ (/\ static.PATHS["MODEL_WEIGHTS"] # None
        /\ pc = "done" \/ failed_at = "save") =>
         Saves = << Call("save_model",
                      [model |-> ret.model,
                       filepath |-> args.trainoutputdir \o <<Sep>>
                                      \o FileName(static.PATHS["MODEL_TO_LOAD"])]) >>

C5_Witness ==
  /\ stage = "train" /\ pc = "done"
  /\ static.PATHS["MODEL_WEIGHTS"] = <<".", Sep, "data", Sep, "MODEL_WEIGHTS">>
  /\ cb.trained = 2 /\ ret.model = 2
  /\ Saves = << Call("save_model",
                  [model |-> 2, filepath |-> <<Sep, "m", Sep, "t", Sep, "MODEL_TO_LOAD">>]) >>

\* the statement a call belongs to
StepOfCall(c) ==
  CASE c.fn = "os.makedirs" -> "provision"
    [] c.fn = "preprocess" -> "preprocess"
    [] c.fn = "load_dataset" -> "load_dataset"
    [] c.fn = "multi_train" -> "multi_train"
    [] c.fn = "run.log" -> (IF c.a[1] = "test_" THEN "log_test" ELSE "log_best")
    [] c.fn = "model.predict" -> "predict"
    [] c.fn = "plot_roc" -> "plot_roc"
    [] c.fn = "run.log_image" -> (IF c.a = "ROC" THEN "log_roc" ELSE "log_cm")
    [] c.fn = "plot_confusion_matrix" -> "plot_cm"
    [] c.fn = "save_model" -> "save"

\* the process has ended at the failing statement: no call of a later
\* statement was made, and the failing statement made each of its calls once
Stopped ==
  /\ pc = "failed"
  /\ \A i \in DOMAIN calls :
       StepIndex(stage, StepOfCall(calls[i])) <= StepIndex(stage, failed_at)
  /\ \A i, j \in DOMAIN calls :
       (/\ StepOfCall(calls[i]) = "log_test"
        /\ StepOfCall(calls[j]) = "log_test"
        /\ calls[i].a = calls[j].a) => i = j
  /\ failed_at # "log_test" =>
       Cardinality({i \in DOMAIN calls : StepOfCall(calls[i]) = failed_at}) <= 1

\* C8: once a statement has failed the process is over: nothing more
\* happens, no later statement has made a call, the failing call was made
\* once.
C8_FailStop ==
  /\ [](failed_at # "" => Stopped)
  /\ [][failed_at = ""]_vars

C8_Witness ==
  /\ stage = "train" /\ pc = "failed" /\ failed_at = "log_test"
  /\ ti = 2 /\ Len(calls) = 6
  /\ calls[6] = Call("run.log", <<"test_", "recall">>)

\* PATHS of the running stage is fully rewritten
FullyRewritten ==
  /\ applied[stage] = 1
  /\ RelocatedAll
  /\ stage = "train" => cfg[stage].PATHS["LOGS"] = args.traininglogsdir

ExpectedCalls ==
  IF stage = "preprocess"
  THEN << Call("preprocess", [config |-> cfg[stage], n_weeks |-> None, include_gt |-> TRUE,
                              calculate_gt |-> TRUE, classify_cat_feats |-> TRUE,
                              load_ct |-> FALSE]) >>
  ELSE << Call("load_dataset", cfg[stage]),
          Call("multi_train",
               [config |-> cfg[stage],
                callbacks |-> << [type |-> "EarlyStopping", monitor |-> "val_loss",
                                  patience |-> static.TRAIN["PATIENCE"], mode |-> "min",
                                  restore_best_weights |-> TRUE],
                                 [type |-> "LogRunMetrics"] >>,
                base_log_dir |-> args.traininglogsdir]),
          Call("run.log", <<"TensorBoard logs folder", ret.best_logs_date>>),
          Call("model.predict", [model |-> ret.model,
                                 batch_size |-> static.TRAIN["BATCH_SIZE"]]) >>
       \o [i \in DOMAIN ret.test_metrics |-> Call("run.log", <<"test_", ret.test_metrics[i]>>)]
       \o << Call("plot_roc", "Test set"),
             Call("run.log_image", "ROC"),
             Call("plot_confusion_matrix", "Y_test"),
             Call("run.log_image", "Confusion matrix") >>
       \o (IF static.PATHS["MODEL_WEIGHTS"] # None
           THEN << Call("save_model", [model |-> ret.model,
                                       filepath |-> cfg[stage].PATHS["MODEL_TO_LOAD"]]) >>
           ELSE <<>>)

\* C9: a run that ends without a failure has made exactly the expected
\* calls, each once and in the stated order, all after the rewriting and
\* after the provisioning, with the rewritten configuration.
C9_Order ==
  pc = "done" =>
    /\ FullyRewritten
    /\ LET made == SelectSeq(calls, LAMBDA c : c.fn # "os.makedirs")
       IN /\ [i \in DOMAIN made |-> made[i].fn]
               = [i \in DOMAIN ExpectedCalls |-> ExpectedCalls[i].fn]
          /\ made = ExpectedCalls
    /\ \A i \in DOMAIN calls : calls[i].fn = "os.makedirs" => i = 1

C9_Witness ==
  /\ stage = "train" /\ pc = "done"
  /\ Len(calls) = 12
  /\ calls[1].fn = "os.makedirs" /\ calls[12].fn = "save_model"
  /\ calls[6] = Call("run.log", <<"test_", "auc">>)

FrameKeys(s) ==
  IF s = "preprocess"
  THEN {"SCALER_COL_TRANSFORMER", "MODEL_TO_LOAD", "MODEL_WEIGHTS", "LOGS"}
  ELSE {"RAW_DATA", "RAW_SPDAT_DATA", "GROUND_TRUTH", "ORDINAL_COL_TRANSFORMER",
        "OHE_COL_TRANSFORMER_MV", "OHE_COL_TRANSFORMER_SV", "MODEL_WEIGHTS"}

Loaded == pc # "load" /\ failed_at # "load"

FrameKept ==
  Loaded =>
    /\ cfg[stage].TRAIN = static.TRAIN
    /\ \A k \in FrameKeys(stage) :
         /\ k \in DOMAIN cfg[stage].PATHS <=> k \in DOMAIN static.PATHS
         /\ k \in DOMAIN static.PATHS => cfg[stage].PATHS[k] = static.PATHS[k]

\* C10: the rewriting leaves the keys outside the stage's fixed set and the
\* TRAIN section as they are in config.yml for the rest of the run, and the
\* rewriting statement changes neither the file system nor the calls made.
C10_Frame ==
  /\ []FrameKept
  /\ [][pc = "rewrite" => (fs' = fs /\ calls' = calls)]_vars

C10_Witness ==
  /\ stage = "train" /\ pc = "provision"
  /\ cfg[stage].PATHS["TRAIN_SET"] = <<Sep, "m", Sep, "o", Sep, "TRAIN_SET">>
  /\ cfg[stage].PATHS["GROUND_TRUTH"] = <<".", Sep, "data", Sep, "GROUND_TRUTH">>
  /\ cfg[stage].PATHS["MODEL_WEIGHTS"] = None
====
